---- MODULE Spec2Model ----
(***************************************************************************)
(* Amazon Bedrock chat adapters (chat/adapters.py): parameter merging,     *)
(* request bodies, response extraction and stream aggregation of the       *)
(* Anthropic Claude, Mistral and Meta Llama 2 adapters.                    *)
(*                                                                         *)
(* Python values are modelled by records of one shape, so that any two of  *)
(* them can be compared:                                                   *)
(*   kind "none"  None                                                     *)
(*   kind "int"   the number n                                             *)
(*   kind "str"   the string s, a text                                     *)
(*   kind "list"  a list: l holds its hashable elements, which are drawn   *)
(*                from a totally ordered universe (element i stands for    *)
(*                the i-th string of that order), m its dict elements      *)
(*   kind "dict"  the dict m[1]                                            *)
(*   kind "bytes" the UTF-8 JSON text of the dict m[1]                     *)
(* A dict is a function from its keys to such values.  A text is the       *)
(* sequence of its tokens; the empty string is the empty sequence and      *)
(* white space is a token " ".                                             *)
(***************************************************************************)
EXTENDS Integers, Sequences, FiniteSets, TLC

VARIABLES
    \* the adapter
    family, generation_kwargs, truncate, prompt_handler,
    \* the call in progress or just made, and how it ended
    pc, raised,
    \* prepare_body: its arguments, the merged parameters, the body returned
    messages, inference_kwargs, params, body,
    \* get_responses: its argument; the messages it or get_stream_responses
    \* returned
    response_body, responses,
    \* get_stream_responses: the stream, the fragments pulled, the locals of
    \* the loop, and the calls of the callback made and returned
    stream, pulled, streaming_chunk, streaming_chunks, last_decoded_chunk,
    calls, calls_returned,
    \* check_prompt: its argument and the resize information it returned
    prompt, resize_info,
    \* the dict the caller passed to __init__ as generation_kwargs (the adapter
    \* keeps this very dict, not a copy), another adapter built from it, and
    \* the first adapter as its __init__ left it
    mapping, other, constructed

adapter_vars == <<family, generation_kwargs, truncate, prompt_handler>>
prepare_vars == <<messages, inference_kwargs, params, body>>
response_vars == <<response_body>>
stream_vars == <<stream, pulled, streaming_chunk, streaming_chunks, last_decoded_chunk,
                 calls, calls_returned>>
check_vars == <<prompt, resize_info>>
construct_vars == <<mapping, other, constructed>>

----------------------------------------------------------------------------
(* Python values *)

Value(kind, n, s, l, m) == [kind |-> kind, n |-> n, s |-> s, l |-> l, m |-> m]
NoneV == Value("none", 0, <<>>, <<>>, <<>>)
IntV(i) == Value("int", i, <<>>, <<>>, <<>>)
StrV(str) == Value("str", 0, str, <<>>, <<>>)
ListV(lst) == Value("list", 0, <<>>, lst, <<>>)
DictsV(dicts) == Value("list", 0, <<>>, <<>>, dicts)
DictV(d) == Value("dict", 0, <<>>, <<>>, <<d>>)
BytesV(d) == Value("bytes", 0, <<>>, <<>>, <<d>>)

EmptyDict == [k \in {} |-> NoneV]

\* bool(v)
Truthy(v) ==
    CASE v.kind = "none" -> FALSE
      [] v.kind = "int" -> v.n # 0
      [] v.kind = "str" -> v.s # <<>>
      [] v.kind = "list" -> v.l # <<>> \/ v.m # <<>>
      [] v.kind = "dict" -> v.m[1] # EmptyDict
      [] v.kind = "bytes" -> TRUE

\* isinstance(v, list)
IsList(v) == v.kind = "list"

\* a or b
Or(a, b) == IF Truthy(a) THEN a ELSE b

\* d.get(k, default)
Get(d, k, default) == IF k \in DOMAIN d THEN d[k] ELSE default

\* d[k] = v
Put(d, k, v) == [x \in DOMAIN d \cup {k} |-> IF x = k THEN v ELSE d[x]]

\* d without k, as left by d.pop(k, ...)
Pop(d, k) == [x \in DOMAIN d \ {k} |-> d[x]]

\* {**a, **b}
DictMerge(a, b) == [x \in DOMAIN a \cup DOMAIN b |-> IF x \in DOMAIN b THEN b[x] ELSE a[x]]

Range(seq) == {seq[i] : i \in 1..Len(seq)}

Min(a, b) == IF a < b THEN a ELSE b

SetMin(S) == CHOOSE x \in S : \A y \in S : x <= y

RECURSIVE SortedSet(_)
\* sorted(set(...)) of the elements S
SortedSet(S) == IF S = {} THEN <<>> ELSE <<SetMin(S)>> \o SortedSet(S \ {SetMin(S)})

----------------------------------------------------------------------------
(* BedrockModelChatAdapter._update_params and _get_params *)

\* set() raises TypeError on a list that holds an unhashable element, a dict
Unhashable(v) == v.m # <<>>

\* the branch of _update_params taken for one allowed key
MergesLists(target_dict, key, value) ==
    key \in DOMAIN target_dict /\ IsList(target_dict[key]) /\ IsList(value)

\* the value _update_params stores under an allowed key
MergedValue(target_dict, key, value) ==
    IF MergesLists(target_dict, key, value)
    THEN ListV(SortedSet(Range(target_dict[key].l \o value.l)))
    ELSE value

\* the test without its effect: no key is skipped
KeyAllowed_all(key, allowed_params) == TRUE

\* key in allowed_params
KeyAllowed(key, allowed_params) == key \in Range(allowed_params)

\* _update_params: the updated target_dict, or the TypeError that
\* sorted(set(...)) raises.  The keys are handled independently of each
\* other, so the iteration order of updates_dict does not show.
update_params(target_dict, updates_dict, allowed_params) ==
    LET used == {k \in DOMAIN updates_dict : KeyAllowed(k, allowed_params)}
        bad == {k \in used : /\ MergesLists(target_dict, k, updates_dict[k])
                              /\ \/ Unhashable(target_dict[k])
                                 \/ Unhashable(updates_dict[k])}
    IN  [err |-> IF bad = {} THEN "" ELSE "TypeError",
         d |-> [k \in DOMAIN target_dict \cup used |->
                  IF k \in used
                  THEN MergedValue(target_dict, k, updates_dict[k])
                  ELSE target_dict[k]]]

\* the two passes in the wrong order: inference_kwargs, then generation_kwargs
get_params_swapped(self_generation_kwargs, kwargs_in, default_params, allowed_params) ==
    LET first == update_params(default_params, kwargs_in, allowed_params)
        second == update_params(first.d, self_generation_kwargs, allowed_params)
    IN  IF first.err # "" THEN [err |-> first.err, d |-> EmptyDict]
        ELSE IF second.err # "" THEN [err |-> second.err, d |-> EmptyDict]
        ELSE [err |-> "", d |-> second.d]

\* _get_params: default_params, then self.generation_kwargs, then
\* inference_kwargs
get_params(self_generation_kwargs, kwargs_in, default_params, allowed_params) ==
    LET first == update_params(default_params, self_generation_kwargs, allowed_params)
        second == update_params(first.d, kwargs_in, allowed_params)
    IN  IF first.err # "" THEN [err |-> first.err, d |-> EmptyDict]
        ELSE IF second.err # "" THEN [err |-> second.err, d |-> EmptyDict]
        ELSE [err |-> "", d |-> second.d]

\* the merge done in place (target_dict[key] += value): the list that
\* target_dict[key] was bound to grows
list_after_merge_in_place(target_list, value) ==
    Value("list", 0, <<>>, target_list.l \o value.l, target_list.m \o value.m)

\* the list target_dict[key] was bound to, after line 82: +, set and sorted
\* build new lists and target_dict[key] is bound to the result, so the list
\* itself is as it was
list_after_merge(target_list, value) == target_list

\* self.generation_kwargs as _get_params leaves it.  The first pass binds
\* kwargs[key] to the very value generation_kwargs holds (line 85), unless
\* it merged it with a list of the defaults; the second pass merges a list
\* of inference_kwargs with it (lines 80-82).
generation_kwargs_after(self_generation_kwargs, kwargs_in, default_params, allowed_params) ==
    [k \in DOMAIN self_generation_kwargs |->
        IF /\ KeyAllowed(k, allowed_params)
           /\ ~MergesLists(default_params, k, self_generation_kwargs[k])
           /\ k \in DOMAIN kwargs_in
           /\ MergesLists(self_generation_kwargs, k, kwargs_in[k])
        THEN list_after_merge(self_generation_kwargs[k], kwargs_in[k])
        ELSE self_generation_kwargs[k]]

----------------------------------------------------------------------------
(* Prompt handler.  DefaultPromptHandler lives in handlers.py; check_prompt *)
(* follows its description: count the tokens, keep the first               *)
(* model_max_length - max_length of them when the prompt does not fit.     *)

DefaultMaxLength == 512
AnthropicModelMaxLength == 100000
MistralModelMaxLength == 32000
Llama2ModelMaxLength == 4096

\* the resize information of a handler that never reports a length below 0
DefaultPromptHandler_call_clamped(handler, text) ==
    LET prompt_length == Len(text)
        new_prompt_length ==
            Min(prompt_length,
                IF handler.model_max_length < handler.max_length
                THEN 0 ELSE handler.model_max_length - handler.max_length)
    IN  [resized_prompt |-> IF new_prompt_length < prompt_length
                            THEN SubSeq(text, 1, new_prompt_length)
                            ELSE text,
         prompt_length |-> prompt_length,
         new_prompt_length |-> new_prompt_length,
         model_max_length |-> handler.model_max_length,
         max_length |-> handler.max_length]

\* DefaultPromptHandler.__call__: the resize information for a text.  With
\* max_length above model_max_length the length reported is below 0 and no
\* token is kept.
DefaultPromptHandler_call(handler, text) ==
    LET prompt_length == Len(text)
        new_prompt_length == Min(prompt_length, handler.model_max_length - handler.max_length)
    IN  [resized_prompt |-> IF new_prompt_length < prompt_length
                            THEN SubSeq(text, 1, new_prompt_length)
                            ELSE text,
         prompt_length |-> prompt_length,
         new_prompt_length |-> new_prompt_length,
         model_max_length |-> handler.model_max_length,
         max_length |-> handler.max_length]

\* check_prompt of the three adapters: return self.prompt_handler(prompt)
check_prompt(handler, text) == DefaultPromptHandler_call(handler, text)

\* no resize information: check_prompt was not called
NoResizeInfo ==
    [resized_prompt |-> <<>>, prompt_length |-> 0, new_prompt_length |-> 0,
     model_max_length |-> 0, max_length |-> 0]

\* _ensure_token_limit: the resized prompt (the warning is not modelled)
ensure_token_limit(handler, text) == check_prompt(handler, text).resized_prompt

----------------------------------------------------------------------------
(* The three adapters: construction *)

Families == {"anthropic", "mistral", "llama2"}

Anthropic_ALLOWED_PARAMS ==
    <<"anthropic_version", "max_tokens", "stop_sequences", "temperature",
      "top_p", "top_k", "system", "tools", "tool_choice">>

Mistral_ALLOWED_PARAMS ==
    <<"max_tokens", "safe_prompt", "random_seed", "temperature", "top_p">>

Llama2_ALLOWED_PARAMS == <<"max_gen_len", "temperature", "top_p">>

ALLOWED_PARAMS(fam) ==
    CASE fam = "anthropic" -> Anthropic_ALLOWED_PARAMS
      [] fam = "mistral" -> Mistral_ALLOWED_PARAMS
      [] fam = "llama2" -> Llama2_ALLOWED_PARAMS

\* the default of model_max_length in the three __init__
DefaultModelMaxLength(fam) ==
    CASE fam = "anthropic" -> AnthropicModelMaxLength
      [] fam = "mistral" -> MistralModelMaxLength
      [] fam = "llama2" -> Llama2ModelMaxLength

\* the generation-length parameter of the family
MaxLengthKey(fam) == IF fam = "llama2" THEN "max_gen_len" ELSE "max_tokens"

\* the prompt handler given the default generation length whatever
\* generation_kwargs holds
init_adapter_default_length(fam, trunc, kwargs) ==
    LET model_max_length == Get(kwargs, "model_max_length", IntV(DefaultModelMaxLength(fam)))
        popped == Pop(kwargs, "model_max_length")
    IN  [generation_kwargs |-> popped,
         truncate |-> trunc,
         prompt_handler |->
            [model_max_length |-> model_max_length.n,
             max_length |-> DefaultMaxLength]]

\* __init__: the adapter built from (truncate, generation_kwargs);
\* model_max_length is popped from the kwargs
init_adapter(fam, trunc, kwargs) ==
    LET model_max_length == Get(kwargs, "model_max_length", IntV(DefaultModelMaxLength(fam)))
        popped == Pop(kwargs, "model_max_length")
    IN  [generation_kwargs |-> popped,
         truncate |-> trunc,
         prompt_handler |->
            [model_max_length |-> model_max_length.n,
             max_length |-> Or(Get(popped, MaxLengthKey(fam), NoneV),
                               IntV(DefaultMaxLength)).n]]

\* no adapter built
NoAdapter ==
    [family |-> "", generation_kwargs |-> EmptyDict, truncate |-> FALSE,
     prompt_handler |-> [model_max_length |-> 0, max_length |-> 0]]

----------------------------------------------------------------------------
(* Chat messages and the chat templates *)

SYSTEM == "system"
USER == "user"
ASSISTANT == "assistant"

ChatMessage(role, content) == [role |-> role, content |-> content]

\* the alternation test of both templates, for the message at loop.index0
RoleOutOfTurn(message, index0) == (message.role = USER) # (index0 % 2 = 0)

\* the messages the templates loop over
LoopMessages(conversation) ==
    IF conversation[1].role = SYSTEM THEN Tail(conversation) ELSE conversation

\* the text one message contributes; sys is the system prefix put before
\* the first loop message, bos what precedes a user turn, and pad what
\* surrounds an assistant turn
RenderMessage(message, sys, bos, pad) ==
    CASE message.role = USER ->
            bos \o <<"[INST]">> \o sys \o message.content \o <<"[/INST]">>
      [] message.role = ASSISTANT ->
            pad \o sys \o message.content \o pad \o <<"</s>">>
      [] OTHER -> <<>>

RECURSIVE RenderLoop(_, _, _, _, _)
RenderLoop(loop_messages, index0, sys, bos, pad) ==
    IF index0 >= Len(loop_messages) THEN <<>>
    ELSE RenderMessage(loop_messages[index0 + 1],
                       IF index0 = 0 THEN sys ELSE <<>>, bos, pad)
         \o RenderLoop(loop_messages, index0 + 1, sys, bos, pad)

\* apply_chat_template: messages[0] of an empty conversation is undefined
\* and its ['role'] raises; raise_exception raises a TemplateError
ApplyTemplate(conversation, sys, start, bos, pad) ==
    IF conversation = <<>> THEN [err |-> "UndefinedError", prompt |-> <<>>]
    ELSE LET loop_messages == LoopMessages(conversation)
         IN  IF \E i \in 1..Len(loop_messages) : RoleOutOfTurn(loop_messages[i], i - 1)
             THEN [err |-> "TemplateError", prompt |-> <<>>]
             ELSE [err |-> "",
                   prompt |-> start \o RenderLoop(loop_messages, 0, sys, bos, pad)]

\* the system message, as the template puts it before the first turn
SystemPrefix(conversation, before, after) ==
    IF conversation # <<>> /\ conversation[1].role = SYSTEM
    THEN before \o conversation[1].content \o after
    ELSE <<>>

Mistral_chat_template(conversation) ==
    ApplyTemplate(conversation, SystemPrefix(conversation, <<>>, <<"\n">>),
                  <<"<s>">>, <<>>, <<>>)

Llama2_chat_template(conversation) ==
    ApplyTemplate(conversation,
                  SystemPrefix(conversation, <<"<<SYS>>\n">>, <<"\n<</SYS>>\n\n">>),
                  <<>>, <<"<s>">>, <<" ">>)

----------------------------------------------------------------------------
(* prepare_body *)

AnthropicVersion == <<"bedrock-2023-05-31">>

\* prepare_body raising err: nothing is returned
Raise(err) == [err |-> err, params |-> EmptyDict, body |-> EmptyDict]

\* the role not carried over
to_anthropic_message_user(m) ==
    [content |-> DictsV(<<[type |-> StrV(<<"text">>), text |-> StrV(m.content)]>>),
     role |-> StrV(<<USER>>)]

\* AnthropicClaudeChatAdapter._to_anthropic_message
to_anthropic_message(m) ==
    [content |-> DictsV(<<[type |-> StrV(<<"text">>), text |-> StrV(m.content)]>>),
     role |-> StrV(<<m.role>>)]

\* AnthropicClaudeChatAdapter.prepare_chat_messages: the messages array and
\* the system entry of the body
Anthropic_prepare_chat_messages(self, msgs) ==
    LET system == IF msgs # <<>> /\ msgs[1].role = SYSTEM
                  THEN StrV(msgs[1].content)
                  ELSE NoneV
        kept == SelectSeq(msgs, LAMBDA m : m.role = USER \/ m.role = ASSISTANT)
        converted == [i \in 1..Len(kept) |-> to_anthropic_message(kept[i])]
        limited(am) ==
            [am EXCEPT !.content = DictsV(<<[am.content.m[1] EXCEPT !.text =
                StrV(ensure_token_limit(self.prompt_handler, @.s))]>>)]
        with_messages == Put(EmptyDict, "messages",
                             DictsV(IF self.truncate
                                       THEN [i \in 1..Len(kept) |-> limited(converted[i])]
                                       ELSE converted))
    IN  IF Truthy(system) THEN Put(with_messages, "system", system) ELSE with_messages

\* the inference_kwargs Anthropic's prepare_body hands to _get_params:
\* stop_words joins stop_sequences, stream is popped
Anthropic_inference_kwargs(kwargs_in) ==
    LET stop_sequences == Get(kwargs_in, "stop_sequences", ListV(<<>>)).l
                          \o Get(kwargs_in, "stop_words", ListV(<<>>)).l
        popped == Pop(kwargs_in, "stop_words")
        joined == IF stop_sequences # <<>>
                  THEN Put(popped, "stop_sequences", ListV(stop_sequences))
                  ELSE popped
    IN  Pop(joined, "stream")

Anthropic_default_params(self) ==
    Put(Put(EmptyDict, "anthropic_version",
            Or(Get(self.generation_kwargs, "anthropic_version", NoneV), StrV(AnthropicVersion))),
        "max_tokens",
        Or(Get(self.generation_kwargs, "max_tokens", NoneV), IntV(DefaultMaxLength)))

\* AnthropicClaudeChatAdapter.prepare_body
Anthropic_prepare_body(self, msgs, kwargs_in) ==
    LET got == get_params(self.generation_kwargs, Anthropic_inference_kwargs(kwargs_in),
                          Anthropic_default_params(self), Anthropic_ALLOWED_PARAMS)
        chat == Anthropic_prepare_chat_messages(self, msgs)
    IN  IF got.err # "" THEN Raise(got.err)
        ELSE [err |-> "", params |-> got.d, body |-> DictMerge(chat, got.d)]

\* the inference_kwargs Mistral's prepare_body hands to _get_params:
\* stop_words becomes stop, stream is popped
Mistral_inference_kwargs(kwargs_in) ==
    LET stop_words == Get(kwargs_in, "stop_words", ListV(<<>>))
        popped == Pop(kwargs_in, "stop_words")
        renamed == IF Truthy(stop_words) THEN Put(popped, "stop", stop_words) ELSE popped
    IN  Pop(renamed, "stream")

Mistral_default_params(self) ==
    Put(EmptyDict, "max_tokens",
        Or(Get(self.generation_kwargs, "max_tokens", NoneV), IntV(DefaultMaxLength)))

Llama2_default_params(self) ==
    Put(EmptyDict, "max_gen_len",
        Or(Get(self.generation_kwargs, "max_gen_len", NoneV), IntV(DefaultMaxLength)))

\* prepare_chat_messages of Mistral and Llama 2: the templated prompt,
\* truncated when truncate is set
prepare_chat_messages(self, templated) ==
    IF templated.err # "" THEN templated
    ELSE [err |-> "",
          prompt |-> IF self.truncate
                     THEN ensure_token_limit(self.prompt_handler, templated.prompt)
                     ELSE templated.prompt]

\* the body {"prompt": ..., **params} of Mistral and Llama 2
PromptBody(got, chat) ==
    IF got.err # "" THEN Raise(got.err)
    ELSE IF chat.err # "" THEN Raise(chat.err)
    ELSE [err |-> "", params |-> got.d,
          body |-> DictMerge(Put(EmptyDict, "prompt", StrV(chat.prompt)), got.d)]

\* MistralChatAdapter.prepare_body
Mistral_prepare_body(self, msgs, kwargs_in) ==
    PromptBody(get_params(self.generation_kwargs, Mistral_inference_kwargs(kwargs_in),
                          Mistral_default_params(self), Mistral_ALLOWED_PARAMS),
               prepare_chat_messages(self, Mistral_chat_template(msgs)))

\* MetaLlama2ChatAdapter.prepare_body
Llama2_prepare_body(self, msgs, kwargs_in) ==
    PromptBody(get_params(self.generation_kwargs, kwargs_in,
                          Llama2_default_params(self), Llama2_ALLOWED_PARAMS),
               prepare_chat_messages(self, Llama2_chat_template(msgs)))

prepare_body(fam, self, msgs, kwargs_in) ==
    CASE fam = "anthropic" -> Anthropic_prepare_body(self, msgs, kwargs_in)
      [] fam = "mistral" -> Mistral_prepare_body(self, msgs, kwargs_in)
      [] fam = "llama2" -> Llama2_prepare_body(self, msgs, kwargs_in)

\* self.generation_kwargs as prepare_body leaves it
generation_kwargs_after_prepare_body(fam, self, kwargs_in) ==
    CASE fam = "anthropic" ->
            generation_kwargs_after(self.generation_kwargs,
                                    Anthropic_inference_kwargs(kwargs_in),
                                    Anthropic_default_params(self), Anthropic_ALLOWED_PARAMS)
      [] fam = "mistral" ->
            generation_kwargs_after(self.generation_kwargs,
                                    Mistral_inference_kwargs(kwargs_in),
                                    Mistral_default_params(self), Mistral_ALLOWED_PARAMS)
      [] fam = "llama2" ->
            generation_kwargs_after(self.generation_kwargs, kwargs_in,
                                    Llama2_default_params(self), Llama2_ALLOWED_PARAMS)

----------------------------------------------------------------------------
(* get_responses *)

\* ChatMessage.from_assistant
from_assistant(content, meta) == [role |-> ASSISTANT, content |-> content, meta |-> meta]

\* d without the keys ks: {k: v for k, v in d.items() if k not in ks}
Without(d, ks) == [k \in DOMAIN d \ ks |-> d[k]]

\* the order json.dumps writes the keys of a content block in (the order
\* the backend gave them in)
JsonKeyOrder == <<"type", "id", "name", "text">>

RECURSIVE json_members(_, _)
json_members(d, keys) ==
    IF keys = <<>> THEN <<>>
    ELSE (IF Head(keys) \in DOMAIN d
          THEN <<",", Head(keys), ":">> \o d[Head(keys)].s
          ELSE <<>>)
         \o json_members(d, Tail(keys))

\* json.dumps of a dict of strings: the text { k : v , k : v }
json_dumps(d) ==
    LET members == json_members(d, JsonKeyOrder)
    IN  <<"{">> \o (IF members = <<>> THEN <<>> ELSE Tail(members)) \o <<"}">>

RECURSIVE ExtractBlocks(_, _, _)
\* the loop over response_body["content"]: one message per block of the
\* wanted type; content["text"] of a text block without text is a KeyError
ExtractBlocks(blocks, wanted, meta) ==
    IF blocks = <<>> THEN [err |-> "", messages |-> <<>>]
    ELSE LET content == Head(blocks)
             rest == ExtractBlocks(Tail(blocks), wanted, meta)
         IN  IF Get(content, "type", NoneV) # StrV(<<wanted>>) THEN rest
             ELSE IF wanted = "text" /\ "text" \notin DOMAIN content
                  THEN [err |-> "KeyError", messages |-> <<>>]
             ELSE IF rest.err # "" THEN rest
             ELSE [err |-> "",
                   messages |->
                      <<from_assistant(IF wanted = "tool_use" THEN json_dumps(content)
                                       ELSE content["text"].s, meta)>>
                      \o rest.messages]

\* the text blocks kept whatever stop_reason says
Anthropic_extract_messages_from_response_text_only(resp) ==
    IF Get(resp, "type", NoneV) # StrV(<<"message">>)
    THEN [err |-> "", messages |-> <<>>]
    ELSE IF "content" \notin DOMAIN resp
    THEN [err |-> "KeyError", messages |-> <<>>]
    ELSE ExtractBlocks(resp["content"].m, "text",
                       Without(resp, {"type", "content", "role"}))

\* AnthropicClaudeChatAdapter._extract_messages_from_response
Anthropic_extract_messages_from_response(resp) ==
    IF Get(resp, "type", NoneV) # StrV(<<"message">>)
    THEN [err |-> "", messages |-> <<>>]
    ELSE IF "content" \notin DOMAIN resp
    THEN [err |-> "KeyError", messages |-> <<>>]
    ELSE ExtractBlocks(resp["content"].m,
                       IF Get(resp, "stop_reason", NoneV) = StrV(<<"tool_use">>)
                       THEN "tool_use" ELSE "text",
                       Without(resp, {"type", "content", "role"}))

RECURSIVE ExtractOutputs(_)
\* the loop over response_body.get("outputs", [])
ExtractOutputs(outputs) ==
    IF outputs = <<>> THEN [err |-> "", messages |-> <<>>]
    ELSE LET response == Head(outputs)
             rest == ExtractOutputs(Tail(outputs))
         IN  IF "text" \notin DOMAIN response THEN [err |-> "KeyError", messages |-> <<>>]
             ELSE IF rest.err # "" THEN rest
             ELSE [err |-> "",
                   messages |-> <<from_assistant(response["text"].s,
                                                 Without(response, {"text"}))>>
                                \o rest.messages]

\* MistralChatAdapter._extract_messages_from_response
Mistral_extract_messages_from_response(resp) ==
    ExtractOutputs(Get(resp, "outputs", DictsV(<<>>)).m)

\* MetaLlama2ChatAdapter._extract_messages_from_response
Llama2_extract_messages_from_response(resp) ==
    IF "generation" \notin DOMAIN resp
    THEN [err |-> "KeyError", messages |-> <<>>]
    ELSE [err |-> "",
          messages |-> <<from_assistant(resp["generation"].s,
                                        Without(resp, {"generation"}))>>]

\* BedrockModelChatAdapter.get_responses
get_responses(fam, resp) ==
    CASE fam = "anthropic" -> Anthropic_extract_messages_from_response(resp)
      [] fam = "mistral" -> Mistral_extract_messages_from_response(resp)
      [] fam = "llama2" -> Llama2_extract_messages_from_response(resp)

----------------------------------------------------------------------------
(* get_stream_responses *)

StreamingChunk(content, meta) == [content |-> content, meta |-> meta]

\* event.get("chunk")
event_chunk(event) == Get(event, "chunk", NoneV)

\* the test "if chunk:" replaced by "if chunk is not None:"
carries_payload_not_none(chunk) == chunk.kind # "none"

\* if chunk:
carries_payload(chunk) == Truthy(chunk)

\* json.loads(chunk["bytes"].decode("utf-8")); a chunk without bytes is
\* never decoded
json_loads_chunk(chunk) == Get(chunk.m[1], "bytes", BytesV(EmptyDict)).m[1]

\* AnthropicClaudeChatAdapter._build_streaming_chunk
Anthropic_build_streaming_chunk(chunk) ==
    LET delta == Get(chunk, "delta", DictV(EmptyDict)).m[1]
    IN  IF /\ Get(chunk, "type", NoneV) = StrV(<<"content_block_delta">>)
           /\ Get(delta, "type", NoneV) = StrV(<<"text_delta">>)
        THEN StreamingChunk(Get(delta, "text", StrV(<<>>)).s, chunk)
        ELSE StreamingChunk(<<>>, chunk)

\* MistralChatAdapter._build_streaming_chunk
Mistral_build_streaming_chunk(chunk) ==
    LET response_chunk == Get(chunk, "outputs", DictsV(<<>>))
    IN  IF Truthy(response_chunk)
        THEN StreamingChunk(Get(response_chunk.m[1], "text", StrV(<<>>)).s, chunk)
        ELSE StreamingChunk(<<>>, chunk)

\* MetaLlama2ChatAdapter._build_streaming_chunk
Llama2_build_streaming_chunk(chunk) ==
    StreamingChunk(Get(chunk, "generation", StrV(<<>>)).s, chunk)

build_streaming_chunk(fam, chunk) ==
    CASE fam = "anthropic" -> Anthropic_build_streaming_chunk(chunk)
      [] fam = "mistral" -> Mistral_build_streaming_chunk(chunk)
      [] fam = "llama2" -> Llama2_build_streaming_chunk(chunk)

WhiteSpace == {" ", "\n"}

RECURSIVE Join(_)
\* "".join(chunk.content for chunk in chunks)
Join(chunks) == IF chunks = <<>> THEN <<>> ELSE Head(chunks).content \o Join(Tail(chunks))

\* str.strip in the place of str.lstrip: trailing white space goes too
RECURSIVE strip(_)
strip(text) ==
    IF text = <<>> THEN <<>>
    ELSE IF Head(text) \in WhiteSpace THEN strip(Tail(text))
    ELSE IF text[Len(text)] \in WhiteSpace THEN strip(SubSeq(text, 1, Len(text) - 1))
    ELSE text

RECURSIVE lstrip(_)
\* str.lstrip
lstrip(text) ==
    IF text # <<>> /\ Head(text) \in WhiteSpace THEN lstrip(Tail(text)) ELSE text

\* the callback left out for chunks without text
invoke_callback_nonempty(calls_made, index, built) ==
    IF built.content = <<>> THEN calls_made
    ELSE Append(calls_made, [index |-> index, chunk |-> built])

\* streaming_callback(streaming_chunk): the calls made so far, each with
\* the number of the fragment it was made for
invoke_callback(calls_made, index, built) ==
    Append(calls_made, [index |-> index, chunk |-> built])

\* last_decoded_chunk kept only when the chunk has text
decoded_if_text(fam, last, chunk) ==
    IF build_streaming_chunk(fam, json_loads_chunk(chunk)).content = <<>>
    THEN last ELSE json_loads_chunk(chunk)

\* last_decoded_chunk = json.loads(...)
decoded(fam, last, chunk) == json_loads_chunk(chunk)

\* the return of get_stream_responses
stream_responses(chunks, last) == <<from_assistant(lstrip(Join(chunks)), last)>>

----------------------------------------------------------------------------
(* The inputs the adapters are driven with *)

MaxKwargs == 2
MaxMessages == 3

RECURSIVE AllDicts(_, _)
\* all dicts over any of the keys, values[k] the values of k
AllDicts(keys, values) ==
    IF keys = {} THEN {EmptyDict}
    ELSE LET key == CHOOSE k \in keys : TRUE
             rest == AllDicts(keys \ {key}, values)
         IN  rest \cup {Put(d, key, v) : d \in rest, v \in values[key]}

\* all dicts over at most MaxKwargs of the keys
Dicts(keys, values) ==
    {d \in AllDicts(keys, values) : Cardinality(DOMAIN d) <= MaxKwargs}

GenerationKeys ==
    {"max_tokens", "max_gen_len", "stop_sequences", "system", "tools", "foo",
     "model_max_length"}

GenerationValues == [k \in GenerationKeys |->
    CASE k = "max_tokens" -> {IntV(0), IntV(100)}
      [] k = "max_gen_len" -> {IntV(100)}
      [] k = "stop_sequences" -> {ListV(<<2, 1>>)}
      [] k = "system" -> {StrV(<<"G">>)}
      [] k = "tools" -> {DictsV(<<[name |-> StrV(<<"search">>)]>>)}
      [] k = "foo" -> {IntV(1)}
      [] k = "model_max_length" -> {IntV(DefaultMaxLength + 2)}]

InferenceKeys ==
    {"max_tokens", "max_gen_len", "stop_sequences", "stop_words", "stop", "system",
     "tools", "stream", "bar"}

InferenceValues == [k \in InferenceKeys |->
    CASE k = "max_tokens" -> {IntV(7), IntV(DefaultMaxLength + 88)}
      [] k = "max_gen_len" -> {IntV(7), IntV(DefaultMaxLength + 88)}
      [] k = "stop_sequences" -> {ListV(<<3, 1>>)}
      [] k = "stop_words" -> {ListV(<<2>>)}
      [] k = "stop" -> {ListV(<<3>>)}
      [] k = "system" -> {StrV(<<"I">>)}
      [] k = "tools" -> {DictsV(<<[name |-> StrV(<<"lookup">>)]>>)}
      [] k = "stream" -> {IntV(1)}
      [] k = "bar" -> {IntV(2)}]

GenerationKwargs == Dicts(GenerationKeys, GenerationValues)
InferenceKwargs == Dicts(InferenceKeys, InferenceValues)

MessagePool ==
    {ChatMessage(SYSTEM, <<>>), ChatMessage(SYSTEM, <<"Be", "brief">>),
     ChatMessage(USER, <<"a", "b", "c">>), ChatMessage(ASSISTANT, <<"ok">>)}

Conversations == UNION {[1..n -> MessagePool] : n \in 0..MaxMessages}

\* every inference_kwargs with one conversation, every conversation with
\* no inference_kwargs and with a system parameter
PrepareInputs ==
    {[messages |-> <<ChatMessage(USER, <<"a", "b", "c">>)>>, kwargs |-> k] :
        k \in InferenceKwargs}
    \cup {[messages |-> c, kwargs |-> k] :
            c \in Conversations,
            k \in {EmptyDict, Put(EmptyDict, "system", StrV(<<"I">>))}}

\* generation_kwargs with list values: stop sequences, tools
CallsKwargs ==
    {Put(Put(EmptyDict, "stop_sequences", ListV(<<2, 1>>)),
         "model_max_length", IntV(DefaultMaxLength + 2)),
     Put(Put(EmptyDict, "tools", DictsV(<<[name |-> StrV(<<"search">>)]>>)),
         "stop_sequences", ListV(<<2, 1>>))}

MaxModelLength == 4
MaxPromptLength == 3

\* generation_kwargs giving model_max_length and the generation length, the
\* latter also above the former
HandlerKwargs(fam) ==
    {Put(Put(EmptyDict, "model_max_length", IntV(m)), MaxLengthKey(fam), IntV(l)) :
        m \in 0..MaxModelLength, l \in 0..MaxModelLength + 1}

\* the prompts check_prompt is called with
Prompts == UNION {[1..n -> {"a", "b"}] : n \in 0..MaxPromptLength}

----------------------------------------------------------------------------
(* The responses and streams the adapters are driven with *)

MaxBlocks == 2
MaxEvents == 3

\* the lists of at most n of the dicts of pool
DictLists(pool, n) == {DictsV(l) : l \in UNION {[1..i -> pool] : i \in 0..n}}

BlockPool ==
    {[type |-> StrV(<<"text">>), text |-> StrV(<<"hello">>)],
     [type |-> StrV(<<"text">>), text |-> StrV(<<"world">>)],
     [type |-> StrV(<<"text">>)],
     [type |-> StrV(<<"tool_use">>), id |-> StrV(<<"t1">>), name |-> StrV(<<"search">>)],
     [type |-> StrV(<<"tool_use">>), id |-> StrV(<<"t2">>), name |-> StrV(<<"lookup">>)]}

OutputPool ==
    {[text |-> StrV(<<"hello">>), stop_reason |-> StrV(<<"stop">>)],
     [text |-> StrV(<<"world">>)],
     [stop_reason |-> StrV(<<"length">>)]}

ResponseKeys(fam) ==
    CASE fam = "anthropic" -> {"type", "stop_reason", "content", "role", "id"}
      [] fam = "mistral" -> {"outputs", "id"}
      [] fam = "llama2" -> {"generation", "stop_reason", "id"}

AllResponseKeys == UNION {ResponseKeys(fam) : fam \in Families}

ResponseValues == [k \in AllResponseKeys |->
    CASE k = "type" -> {StrV(<<"message">>), StrV(<<"error">>)}
      [] k = "stop_reason" -> {StrV(<<"tool_use">>), StrV(<<"end_turn">>)}
      [] k = "content" -> DictLists(BlockPool, MaxBlocks)
      [] k = "role" -> {StrV(<<ASSISTANT>>)}
      [] k = "id" -> {StrV(<<"r1">>)}
      [] k = "outputs" -> DictLists(OutputPool, MaxBlocks)
      [] k = "generation" -> {StrV(<<"hello">>)}]

ResponseBodies(fam) == AllDicts(ResponseKeys(fam), ResponseValues)

Texts == {<<" ">>, <<" ", "foo">>, <<"foo">>}

\* the decoded payloads of the fragments of a stream
Payloads(fam) ==
    CASE fam = "anthropic" ->
            {[type |-> StrV(<<"message_start">>)],
             [type |-> StrV(<<"content_block_delta">>),
              delta |-> DictV([type |-> StrV(<<"input_json_delta">>)])]}
            \cup {[type |-> StrV(<<"content_block_delta">>),
                   delta |-> DictV([type |-> StrV(<<"text_delta">>), text |-> StrV(x)])] :
                  x \in Texts}
      [] fam = "mistral" ->
            {[outputs |-> DictsV(<<>>)]}
            \cup {[outputs |-> DictsV(<<[text |-> StrV(x)]>>)] : x \in Texts}
      [] fam = "llama2" ->
            {[stop_reason |-> StrV(<<"stop">>)]}
            \cup {[generation |-> StrV(x)] : x \in Texts}

\* the fragments: without chunk, with an empty chunk, with a payload
Events(fam) ==
    {EmptyDict, [chunk |-> DictV(EmptyDict)]}
    \cup {[chunk |-> DictV([bytes |-> BytesV(p)])] : p \in Payloads(fam)}

Streams(fam) == UNION {[1..n -> Events(fam)] : n \in 0..MaxEvents}

----------------------------------------------------------------------------
(* The state machine *)

self == [generation_kwargs |-> generation_kwargs, truncate |-> truncate,
         prompt_handler |-> prompt_handler]

\* no call in progress, nothing returned
NoCall ==
    /\ pc = "idle"
    /\ raised = ""
    /\ messages = <<>>
    /\ inference_kwargs = EmptyDict
    /\ params = EmptyDict
    /\ body = EmptyDict
    /\ response_body = EmptyDict
    /\ responses = <<>>
    /\ stream = <<>>
    /\ pulled = 0
    /\ streaming_chunk = StreamingChunk(<<>>, EmptyDict)
    /\ streaming_chunks = <<>>
    /\ last_decoded_chunk = EmptyDict
    /\ calls = <<>>
    /\ calls_returned = 0
    /\ prompt = <<>>
    /\ resize_info = NoResizeInfo

\* the adapter is the one __init__ builds from these arguments
Constructed(fam, trunc, kwargs) ==
    LET a == init_adapter(fam, trunc, kwargs)
    IN  /\ family = fam
        /\ generation_kwargs = a.generation_kwargs
        /\ truncate = a.truncate
        /\ prompt_handler = a.prompt_handler
        /\ mapping = a.generation_kwargs
        /\ other = NoAdapter
        /\ constructed = [family |-> fam, generation_kwargs |-> a.generation_kwargs,
                          truncate |-> a.truncate, prompt_handler |-> a.prompt_handler]

\* an adapter right after __init__, no call made yet
Init ==
    /\ \E fam \in Families, trunc \in BOOLEAN, kwargs \in GenerationKwargs :
          Constructed(fam, trunc, kwargs)
    /\ NoCall

\* an adapter built without generation_kwargs
InitPlain ==
    /\ \E fam \in Families, trunc \in BOOLEAN : Constructed(fam, trunc, EmptyDict)
    /\ NoCall

\* an adapter built with a small model_max_length and generation length
InitHandler ==
    /\ \E fam \in Families, trunc \in BOOLEAN :
          \E kwargs \in HandlerKwargs(fam) : Constructed(fam, trunc, kwargs)
    /\ NoCall

\* the caller holds a generation_kwargs dict; no adapter is built from it yet
InitMapping ==
    /\ mapping \in GenerationKwargs
    /\ family = NoAdapter.family
    /\ generation_kwargs = NoAdapter.generation_kwargs
    /\ truncate = NoAdapter.truncate
    /\ prompt_handler = NoAdapter.prompt_handler
    /\ other = NoAdapter
    /\ constructed = NoAdapter
    /\ pc = "new"
    /\ raised = ""
    /\ messages = <<>>
    /\ inference_kwargs = EmptyDict
    /\ params = EmptyDict
    /\ body = EmptyDict
    /\ response_body = EmptyDict
    /\ responses = <<>>
    /\ stream = <<>>
    /\ pulled = 0
    /\ streaming_chunk = StreamingChunk(<<>>, EmptyDict)
    /\ streaming_chunks = <<>>
    /\ last_decoded_chunk = EmptyDict
    /\ calls = <<>>
    /\ calls_returned = 0
    /\ prompt = <<>>
    /\ resize_info = NoResizeInfo

\* __init__(truncate, generation_kwargs) called with the caller's dict:
\* self.generation_kwargs is bound to that dict itself, so the pop of
\* model_max_length takes the key out of the caller's dict
Construct ==
    \E fam \in Families, trunc \in BOOLEAN :
        LET a == init_adapter(fam, trunc, mapping)
        IN  /\ pc = "new"
            /\ pc' = "idle"
            /\ family' = fam
            /\ generation_kwargs' = a.generation_kwargs
            /\ truncate' = a.truncate
            /\ prompt_handler' = a.prompt_handler
            /\ mapping' = a.generation_kwargs
            /\ constructed' = [family |-> fam, generation_kwargs |-> a.generation_kwargs,
                               truncate |-> a.truncate,
                               prompt_handler |-> a.prompt_handler]
            /\ UNCHANGED <<other, raised, prepare_vars, response_vars, responses,
                           stream_vars, check_vars>>

\* __init__ of another adapter called with the same dict, as the first
\* adapter left it; both adapters and the caller then hold the one dict
ConstructOther ==
    \E fam \in Families, trunc \in BOOLEAN :
        LET a == init_adapter(fam, trunc, mapping)
        IN  /\ pc = "idle"
            /\ other = NoAdapter
            /\ other' = [family |-> fam, generation_kwargs |-> a.generation_kwargs,
                         truncate |-> a.truncate, prompt_handler |-> a.prompt_handler]
            /\ mapping' = a.generation_kwargs
            /\ generation_kwargs' = a.generation_kwargs
            /\ UNCHANGED <<family, truncate, prompt_handler, constructed, pc, raised,
                           prepare_vars, response_vars, responses, stream_vars,
                           check_vars>>

\* an adapter built with list-valued generation_kwargs
InitCalls ==
    /\ \E fam \in Families, kwargs \in CallsKwargs : Constructed(fam, TRUE, kwargs)
    /\ NoCall

\* the caller is done with what a call gave; the adapter is free for the
\* next call
Done(call) ==
    /\ pc = call
    /\ pc' = "idle"
    /\ raised' = ""
    /\ messages' = <<>>
    /\ inference_kwargs' = EmptyDict
    /\ params' = EmptyDict
    /\ body' = EmptyDict
    /\ response_body' = EmptyDict
    /\ responses' = <<>>
    /\ stream' = <<>>
    /\ pulled' = 0
    /\ streaming_chunk' = StreamingChunk(<<>>, EmptyDict)
    /\ streaming_chunks' = <<>>
    /\ last_decoded_chunk' = EmptyDict
    /\ calls' = <<>>
    /\ calls_returned' = 0
    /\ prompt' = <<>>
    /\ resize_info' = NoResizeInfo
    /\ UNCHANGED <<adapter_vars, construct_vars>>

\* one call of prepare_body(messages, **inference_kwargs), up to its return
\* or raise
PrepareBody ==
    /\ pc = "idle"
    /\ \E inp \in PrepareInputs :
        LET r == prepare_body(family, self, inp.messages, inp.kwargs)
            after == generation_kwargs_after_prepare_body(family, self, inp.kwargs)
        IN  /\ pc' = "prepare_body"
            /\ messages' = inp.messages
            /\ inference_kwargs' = inp.kwargs
            /\ params' = r.params
            /\ body' = r.body
            /\ raised' = r.err
            /\ generation_kwargs' = after
            /\ mapping' = after
            /\ other' = IF other = NoAdapter THEN other
                        ELSE [other EXCEPT !.generation_kwargs = after]
            /\ UNCHANGED <<family, truncate, prompt_handler, constructed,
                           response_vars, responses, stream_vars, check_vars>>

PrepareDone == Done("prepare_body")

\* one call of get_responses(response_body), up to its return or raise
GetResponses ==
    /\ pc = "idle"
    /\ \E rb \in ResponseBodies(family) :
        LET r == get_responses(family, rb)
        IN  /\ pc' = "get_responses"
            /\ response_body' = rb
            /\ responses' = r.messages
            /\ raised' = r.err
            /\ UNCHANGED <<adapter_vars, prepare_vars, stream_vars, check_vars,
                           construct_vars>>

ResponsesDone == Done("get_responses")

\* get_stream_responses is called on a stream
StreamStart ==
    /\ pc = "idle"
    /\ \E s \in Streams(family) :
        /\ pc' = "stream_loop"
        /\ stream' = s
        /\ UNCHANGED <<adapter_vars, prepare_vars, response_vars, responses, raised,
                       pulled, streaming_chunk, streaming_chunks, last_decoded_chunk,
                       calls, calls_returned, check_vars, construct_vars>>

\* the loop pulls the next event; one with a payload is decoded and the
\* callback is called with its chunk
StreamPull ==
    /\ pc = "stream_loop"
    /\ pulled < Len(stream)
    /\ pulled' = pulled + 1
    /\ LET chunk == event_chunk(stream[pulled + 1])
       IN  IF carries_payload(chunk)
           THEN LET last == decoded(family, last_decoded_chunk, chunk)
                    built == build_streaming_chunk(family, last)
                IN  /\ last_decoded_chunk' = last
                    /\ streaming_chunk' = built
                    /\ calls' = invoke_callback(calls, pulled + 1, built)
                    /\ pc' = "stream_callback"
           ELSE UNCHANGED <<last_decoded_chunk, streaming_chunk, calls, pc>>
    /\ UNCHANGED <<adapter_vars, prepare_vars, response_vars, responses, raised,
                   stream, streaming_chunks, calls_returned, check_vars,
                   construct_vars>>

\* the callback returns and the chunk is appended to streaming_chunks
StreamCallbackReturn ==
    /\ pc = "stream_callback"
    /\ pc' = "stream_loop"
    /\ calls_returned' = calls_returned + 1
    /\ streaming_chunks' = Append(streaming_chunks, streaming_chunk)
    /\ UNCHANGED <<adapter_vars, prepare_vars, response_vars, responses, raised,
                   stream, pulled, streaming_chunk, last_decoded_chunk, calls,
                   check_vars, construct_vars>>

\* the stream is exhausted: the single message is built and returned
StreamReturn ==
    /\ pc = "stream_loop"
    /\ pulled = Len(stream)
    /\ pc' = "get_stream_responses"
    /\ responses' = stream_responses(streaming_chunks, last_decoded_chunk)
    /\ UNCHANGED <<adapter_vars, prepare_vars, response_vars, raised, stream_vars,
                   check_vars, construct_vars>>

StreamDone == Done("get_stream_responses")

\* one call of check_prompt(prompt)
CheckPrompt ==
    /\ pc = "idle"
    /\ \E text \in Prompts :
        /\ pc' = "check_prompt"
        /\ prompt' = text
        /\ resize_info' = check_prompt(prompt_handler, text)
        /\ UNCHANGED <<adapter_vars, prepare_vars, response_vars, responses, raised,
                       stream_vars, construct_vars>>

CheckDone == Done("check_prompt")

vars == <<family, generation_kwargs, truncate, prompt_handler, pc, raised,
          messages, inference_kwargs, params, body, response_body, responses,
          stream, pulled, streaming_chunk, streaming_chunks, last_decoded_chunk,
          calls, calls_returned, prompt, resize_info, mapping, other, constructed>>

NextPrepare == PrepareBody \/ PrepareDone

NextResponses == GetResponses \/ ResponsesDone

NextStream ==
    StreamStart \/ StreamPull \/ StreamCallbackReturn \/ StreamReturn \/ StreamDone

NextCheck == CheckPrompt \/ CheckDone

NextConstruct == Construct \/ ConstructOther

NextCalls == NextPrepare \/ NextResponses \/ NextStream

Next == NextPrepare \/ NextResponses \/ NextStream \/ NextCheck \/ NextConstruct

\* prepare_body calls on adapters built from any generation_kwargs
SpecPrepare == Init /\ [][NextPrepare]_vars

\* get_responses calls
SpecResponses == InitPlain /\ [][NextResponses]_vars

\* get_stream_responses calls
SpecStream == InitPlain /\ [][NextStream]_vars

\* check_prompt calls on adapters with small token limits
SpecCheck == InitHandler /\ [][NextCheck]_vars

\* two adapters constructed one after the other from one generation_kwargs
SpecConstruct == InitMapping /\ [][NextConstruct]_vars

\* any sequence of prepare_body, get_responses and get_stream_responses
\* calls on one adapter
SpecCalls == InitCalls /\ [][NextCalls]_vars

Spec == Init /\ [][Next]_vars

----------------------------------------------------------------------------
(* Properties of prepare_body and of the parameter merge *)

Returned == pc = "prepare_body" /\ raised = ""

\* the defaults prepare_body starts the merge from
default_params(fam) ==
    CASE fam = "anthropic" -> Anthropic_default_params(self)
      [] fam = "mistral" -> Mistral_default_params(self)
      [] fam = "llama2" -> Llama2_default_params(self)

\* the inference_kwargs prepare_body hands to _get_params
effective_kwargs(fam) ==
    CASE fam = "anthropic" -> Anthropic_inference_kwargs(inference_kwargs)
      [] fam = "mistral" -> Mistral_inference_kwargs(inference_kwargs)
      [] fam = "llama2" -> inference_kwargs

\* C1: the map _get_params returns holds no key outside the allowed list of
\* the adapter, whatever generation_kwargs and inference_kwargs hold.
C1_AllowListing ==
    Returned => \A k \in DOMAIN params : k \in Range(ALLOWED_PARAMS(family))

\* C1 witness: a merge in which both updates hold a key that is not allowed.
C1_Witness ==
    /\ Returned
    /\ \E k \in DOMAIN generation_kwargs : k \notin Range(ALLOWED_PARAMS(family))
    /\ \E k \in DOMAIN effective_kwargs(family) : k \notin Range(ALLOWED_PARAMS(family))
    /\ \E k \in DOMAIN effective_kwargs(family) : k \in Range(ALLOWED_PARAMS(family))

\* C2: an allowed parameter that is a list in generation_kwargs and in the
\* inference_kwargs is merged into the sorted union of the two lists without
\* duplicates: the call returns and the merged value is that list.
C2_ListUnion ==
    pc = "prepare_body" =>
        \A k \in DOMAIN generation_kwargs \cap DOMAIN effective_kwargs(family) :
            LET a == generation_kwargs[k]
                b == effective_kwargs(family)[k]
            IN  (k \in Range(ALLOWED_PARAMS(family)) /\ IsList(a) /\ IsList(b)) =>
                    /\ raised # "TypeError"
                    /\ raised = "" =>
                          /\ IsList(params[k])
                          /\ Range(params[k].l) = Range(a.l) \cup Range(b.l)
                          /\ Len(params[k].l) = Cardinality(Range(params[k].l))
                          /\ \A i, j \in 1..Len(params[k].l) :
                                i < j => params[k].l[i] < params[k].l[j]

\* the value the latest of the three sources gives for k
LatestValue(k) ==
    IF k \in DOMAIN effective_kwargs(family) THEN effective_kwargs(family)[k]
    ELSE IF k \in DOMAIN generation_kwargs THEN generation_kwargs[k]
    ELSE default_params(family)[k]

SourcesGiving(k) ==
    (IF k \in DOMAIN default_params(family) THEN {"default"} ELSE {})
    \cup (IF k \in DOMAIN generation_kwargs THEN {"generation"} ELSE {})
    \cup (IF k \in DOMAIN effective_kwargs(family) THEN {"inference"} ELSE {})

\* C3: an allowed parameter that several sources give, none of them as a
\* list, gets the value of the latest source: inference_kwargs over
\* generation_kwargs over the default.
C3_MergeOrder ==
    Returned =>
        \A k \in Range(ALLOWED_PARAMS(family)) :
            (Cardinality(SourcesGiving(k)) >= 2 /\ ~IsList(LatestValue(k))) =>
                (k \in DOMAIN params /\ params[k] = LatestValue(k))

\* C3 witness: max_tokens given by the default, by generation_kwargs and,
\* with another value, by inference_kwargs.
C3_Witness ==
    /\ Returned
    /\ family = "anthropic"
    /\ "max_tokens" \in DOMAIN generation_kwargs
    /\ "max_tokens" \in DOMAIN inference_kwargs
    /\ generation_kwargs["max_tokens"] # inference_kwargs["max_tokens"]
    /\ params["max_tokens"] = inference_kwargs["max_tokens"]

\* the roles strictly alternate user/assistant, starting with user
StrictlyAlternating(msgs) ==
    \A i \in 1..Len(msgs) : msgs[i].role = IF i % 2 = 1 THEN USER ELSE ASSISTANT

\* the conversation after its optional leading system message
AfterLeadingSystem(msgs) ==
    IF msgs # <<>> /\ msgs[1].role = SYSTEM THEN Tail(msgs) ELSE msgs

\* C8: the Mistral and Llama 2 adapters raise the formatting error and return
\* no body for every conversation whose roles, after an optional leading
\* system message, do not strictly alternate user/assistant starting with
\* user, a system message at a later position included.
C8_AlternationEnforced ==
    (/\ pc = "prepare_body"
     /\ family \in {"mistral", "llama2"}
     /\ ~StrictlyAlternating(AfterLeadingSystem(messages)))
    => (raised = "TemplateError" /\ body = EmptyDict)

\* C9: Mistral's prepare_body renames non-empty stop_words to stop, and stop,
\* holding those stop words, is in the returned body.
C9_MistralStop ==
    (/\ Returned
     /\ family = "mistral"
     /\ "stop_words" \in DOMAIN inference_kwargs
     /\ Truthy(inference_kwargs["stop_words"]))
    => ("stop" \in DOMAIN body /\ body["stop"] = inference_kwargs["stop_words"])

----------------------------------------------------------------------------
(* The request body of the Anthropic adapter *)

AnthropicReturned == Returned /\ family = "anthropic"

\* the USER and ASSISTANT messages of the conversation, in order
UserAssistant(msgs) == SelectSeq(msgs, LAMBDA m : m.role \in {USER, ASSISTANT})

\* the conversation opens with a SYSTEM message that has content
LeadingSystem == messages # <<>> /\ messages[1].role = SYSTEM /\ messages[1].content # <<>>

\* text is content cut to some number of its first tokens
IsPrefix(text, content) ==
    Len(text) <= Len(content) /\ text = SubSeq(content, 1, Len(text))

\* the messages array holds the USER and ASSISTANT messages in order, each
\* as one text block; Kept(text, content) relates the block to the content
MessagesArray(Kept(_, _)) ==
    /\ "messages" \in DOMAIN body
    /\ body["messages"].kind = "list"
    /\ Len(body["messages"].m) = Len(UserAssistant(messages))
    /\ \A i \in 1..Len(UserAssistant(messages)) :
          LET am == body["messages"].m[i]
              src == UserAssistant(messages)[i]
          IN  /\ DOMAIN am = {"content", "role"}
              /\ am.role = StrV(<<src.role>>)
              /\ am.content.kind = "list"
              /\ Len(am.content.m) = 1
              /\ DOMAIN am.content.m[1] = {"type", "text"}
              /\ am.content.m[1].type = StrV(<<"text">>)
              /\ am.content.m[1].text.kind = "str"
              /\ Kept(am.content.m[1].text.s, src.content)

\* anthropic_version and max_tokens get their defaults when no source gives
\* them
AnthropicDefaults ==
    /\ "anthropic_version" \notin DOMAIN generation_kwargs \cup DOMAIN inference_kwargs
          => body["anthropic_version"] = StrV(AnthropicVersion)
    /\ "max_tokens" \notin DOMAIN generation_kwargs \cup DOMAIN inference_kwargs
          => body["max_tokens"] = IntV(DefaultMaxLength)

SystemParameterGiven == "system" \in DOMAIN generation_kwargs \cup DOMAIN inference_kwargs

\* C10 as stated: the content of a leading SYSTEM message is the system field
\* of the returned body, and no other message gives one; the USER and ASSISTANT messages
\* are the messages array, in order, each content as one text block;
\* anthropic_version and max_tokens get their defaults.
C10_AnthropicBodyAsStated ==
    AnthropicReturned =>
        /\ LeadingSystem => ("system" \in DOMAIN body
                             /\ body["system"] = StrV(messages[1].content))
        /\ (~LeadingSystem /\ ~SystemParameterGiven) => "system" \notin DOMAIN body
        /\ MessagesArray(LAMBDA text, content : text = content)
        /\ AnthropicDefaults

\* C10 amended: as stated, but a system parameter of generation_kwargs or
\* inference_kwargs takes the place of the conversation's system message
\* (the one of inference_kwargs first), and with truncate set a content that
\* does not fit the token limit is cut to its first tokens.
C10_AnthropicBody ==
    AnthropicReturned =>
        /\ ~SystemParameterGiven =>
              /\ LeadingSystem => ("system" \in DOMAIN body
                                   /\ body["system"] = StrV(messages[1].content))
              /\ ~LeadingSystem => "system" \notin DOMAIN body
        /\ SystemParameterGiven =>
              /\ "system" \in DOMAIN body
              /\ body["system"] = IF "system" \in DOMAIN inference_kwargs
                                  THEN inference_kwargs["system"]
                                  ELSE generation_kwargs["system"]
        /\ MessagesArray(LAMBDA text, content :
              /\ IsPrefix(text, content)
              /\ (~truncate \/ Len(content) + prompt_handler.max_length
                                  <= prompt_handler.model_max_length)
                    => text = content)
        /\ AnthropicDefaults

\* C10 witness: a conversation with a leading system message, a later system
\* message and two more messages, and a system parameter in the call.
C10_Witness ==
    /\ AnthropicReturned
    /\ LeadingSystem
    /\ \E i \in 2..Len(messages) : messages[i].role = SYSTEM
    /\ Len(UserAssistant(messages)) >= 1
    /\ "system" \in DOMAIN inference_kwargs
    /\ body["system"] # StrV(messages[1].content)

----------------------------------------------------------------------------
(* Properties of get_responses *)

\* the response lacks a field its adapter reads
LacksExpectedFields ==
    CASE family = "anthropic" ->
            "type" \notin DOMAIN response_body \/ "content" \notin DOMAIN response_body
      [] family = "mistral" ->
            \/ "outputs" \notin DOMAIN response_body
            \/ \E i \in 1..Len(response_body["outputs"].m) :
                  "text" \notin DOMAIN response_body["outputs"].m[i]
      [] family = "llama2" -> "generation" \notin DOMAIN response_body

\* C4: get_responses never raises, and a response that lacks the expected
\* fields yields the empty list of messages.
C4_NeverRaises ==
    pc = "get_responses" =>
        /\ raised = ""
        /\ LacksExpectedFields => responses = <<>>

----------------------------------------------------------------------------
(* Properties of get_stream_responses *)

Streaming == pc \in {"stream_loop", "stream_callback", "get_stream_responses"}

\* the fragment carries a payload: a chunk with bytes
HasPayload(event) ==
    /\ "chunk" \in DOMAIN event
    /\ event["chunk"].kind = "dict"
    /\ "bytes" \in DOMAIN event["chunk"].m[1]

\* the decoded payload of such a fragment
PayloadOf(event) == event["chunk"].m[1]["bytes"].m[1]

\* the numbers of the payload-carrying fragments among the first n
PayloadIndices(n) == {i \in 1..n : HasPayload(stream[i])}

\* C5: the callback is called exactly once for every pulled fragment that
\* carries a payload and for no other, in the order of the fragments, with
\* the chunk of that fragment, and no fragment is pulled while a call of the
\* callback has not returned.
C5_CallbackOrder ==
    Streaming =>
        /\ Len(calls) = Cardinality(PayloadIndices(pulled))
        /\ \A j \in 1..Len(calls) :
              /\ calls[j].index \in PayloadIndices(pulled)
              /\ calls[j].chunk.meta = PayloadOf(stream[calls[j].index])
              /\ j > 1 => calls[j - 1].index < calls[j].index
        /\ calls_returned \in {Len(calls) - 1, Len(calls)}
        /\ calls_returned < Len(calls) => calls[Len(calls)].index = pulled

\* C5 witness: the second call of the callback is in progress, on a stream
\* in which a fragment without payload came before it.
C5_Witness ==
    /\ pc = "stream_callback"
    /\ Len(calls) = 2
    /\ calls_returned = 1
    /\ pulled = 3
    /\ calls[1].chunk # calls[2].chunk

SetMax(S) == CHOOSE x \in S : \A y \in S : y <= x

\* C6: once the stream is exhausted exactly one assistant message is
\* returned, also for a stream that is empty or has no payload; its meta is
\* the decoded payload of the last payload-carrying fragment (and empty when
\* there is none).
C6_StreamResult ==
    pc = "get_stream_responses" =>
        /\ pulled = Len(stream)
        /\ Len(responses) = 1
        /\ responses[1].role = ASSISTANT
        /\ responses[1].meta =
              IF PayloadIndices(Len(stream)) = {} THEN EmptyDict
              ELSE PayloadOf(stream[SetMax(PayloadIndices(Len(stream)))])

\* C6 witness: a stream with two different payloads, the second without
\* text, followed by a fragment without payload.
C6_Witness ==
    /\ pc = "get_stream_responses"
    /\ Len(stream) = 3
    /\ PayloadIndices(3) = {1, 2}
    /\ PayloadOf(stream[1]) # PayloadOf(stream[2])
    /\ calls[1].chunk.content # <<>>
    /\ calls[2].chunk.content = <<>>

\* the chunks handed to the callback, in order
ChunksSeen == [j \in 1..Len(calls) |-> calls[j].chunk]

\* stripped is text without the white space it starts with
IsLeftStripped(stripped, text) ==
    \E k \in 0..Len(text) :
        /\ \A i \in 1..k : text[i] \in WhiteSpace
        /\ stripped = SubSeq(text, k + 1, Len(text))
        /\ stripped # <<>> => stripped[1] \notin WhiteSpace

\* C7 as stated: the content is the concatenation of the chunk texts with
\* the leading white space of the first chunk alone stripped; white space at
\* the start of a later chunk is kept, whatever the first chunk is.
C7_ContentAsStated ==
    pc = "get_stream_responses" =>
        \/ ChunksSeen = <<>> /\ responses[1].content = <<>>
        \/ /\ ChunksSeen # <<>>
           /\ \E first \in {SubSeq(ChunksSeen[1].content, k + 1, Len(ChunksSeen[1].content)) :
                              k \in 0..Len(ChunksSeen[1].content)} :
                 /\ IsLeftStripped(first, ChunksSeen[1].content)
                 /\ responses[1].content = first \o Join(Tail(ChunksSeen))

\* C7 amended: the content is the concatenation, in arrival order, of the
\* chunk texts with the leading white space of the whole concatenation
\* stripped, so the white space at the start of a later chunk goes too when
\* every chunk before it is empty or white space.
C7_Content ==
    pc = "get_stream_responses" =>
        IsLeftStripped(responses[1].content, Join(ChunksSeen))

\* C7 witness: the first chunk is empty or white space, the second starts
\* with white space, a third follows, and the content starts with the text
\* of the second.
C7_Witness ==
    /\ pc = "get_stream_responses"
    /\ Len(calls) = 3
    /\ \A i \in 1..Len(calls[1].chunk.content) : calls[1].chunk.content[i] \in WhiteSpace
    /\ calls[2].chunk.content = <<" ", "foo">>
    /\ calls[3].chunk.content = <<" ", "foo">>
    /\ responses[1].content = <<"foo", " ", "foo">>

----------------------------------------------------------------------------
(* Properties of check_prompt *)

Checked == pc = "check_prompt"

\* the prompt does not fit: prompt_length + max_length > model_max_length
DoesNotFit ==
    Len(prompt) + prompt_handler.max_length > prompt_handler.model_max_length

----------------------------------------------------------------------------
(* Properties of construction *)

\* both adapters are built, by the same class
BothBuilt == pc = "idle" /\ other # NoAdapter /\ other.family = family

\* C12: two adapters of one class constructed one after the other from the
\* same generation_kwargs get the same model_max_length: constructing the
\* first changes nothing the second is built from.
C12_InstanceIsolation ==
    BothBuilt =>
        other.prompt_handler.model_max_length = prompt_handler.model_max_length

----------------------------------------------------------------------------
(* Properties of the adapter across calls *)

\* the adapter as it is now
Adapter ==
    [family |-> family, generation_kwargs |-> generation_kwargs,
     truncate |-> truncate, prompt_handler |-> prompt_handler]

\* C13: whatever calls were made on the adapter, its generation_kwargs (the
\* lists in it included), its truncate flag and its prompt handler settings
\* are those its constructor left, and the body prepare_body returned is the
\* one the adapter as constructed returns for the same call.
C13_NoPerRequestState ==
    /\ Adapter = constructed
    /\ Returned =>
          body = prepare_body(family, constructed, messages, inference_kwargs).body

\* C13 witness: prepare_body has returned after merging a list of
\* generation_kwargs with a list of the call's inference_kwargs.
C13_Witness ==
    /\ Returned
    /\ \E k \in DOMAIN generation_kwargs \cap DOMAIN effective_kwargs(family) :
          /\ k \in Range(ALLOWED_PARAMS(family))
          /\ MergesLists(generation_kwargs, k, effective_kwargs(family)[k])
          /\ body[k] # generation_kwargs[k]

----------------------------------------------------------------------------
(* Properties of the Anthropic response parsing *)

\* get_responses was called on an Anthropic response of type "message"
AnthropicMessage ==
    /\ pc = "get_responses"
    /\ family = "anthropic"
    /\ "type" \in DOMAIN response_body
    /\ response_body["type"] = StrV(<<"message">>)
    /\ "content" \in DOMAIN response_body

ToolUse ==
    "stop_reason" \in DOMAIN response_body
    /\ response_body["stop_reason"] = StrV(<<"tool_use">>)

\* the content blocks of the given type, in the order of the response
BlocksOfType(type) ==
    SelectSeq(response_body["content"].m,
              LAMBDA block : "type" \in DOMAIN block /\ block["type"] = StrV(<<type>>))

\* the blocks the claim says are turned into messages
BlocksKept == BlocksOfType(IF ToolUse THEN "tool_use" ELSE "text")

\* every block to be kept as text carries its text
TextBlocksComplete ==
    ToolUse \/ \A i \in 1..Len(BlocksKept) : "text" \in DOMAIN BlocksKept[i]

\* C14: for an Anthropic response of type "message" get_responses returns one
\* message per tool_use block, holding the JSON text of the block, when
\* stop_reason is "tool_use", and one message per text block, holding its
\* text, otherwise; no other block gives a message, the order of the blocks
\* is kept, and the meta of every message is the response's top-level
\* fields without type, content and role.
C14_AnthropicParsing ==
    (AnthropicMessage /\ TextBlocksComplete) =>
        /\ raised = ""
        /\ Len(responses) = Len(BlocksKept)
        /\ \A i \in 1..Len(BlocksKept) :
              /\ responses[i].role = ASSISTANT
              /\ responses[i].content =
                    IF ToolUse THEN json_dumps(BlocksKept[i]) ELSE BlocksKept[i]["text"].s
              /\ DOMAIN responses[i].meta = DOMAIN response_body \ {"type", "content", "role"}
              /\ \A k \in DOMAIN responses[i].meta : responses[i].meta[k] = response_body[k]

\* C14 witness: a tool_use response with a text block before its tool_use
\* block, and with top-level fields that go to meta and that do not.
C14_Witness ==
    /\ AnthropicMessage
    /\ ToolUse
    /\ Len(BlocksKept) = 1
    /\ Len(BlocksOfType("text")) = 1
    /\ response_body["content"].m[2] = BlocksKept[1]
    /\ {"role", "id"} \subseteq DOMAIN response_body
    /\ Len(responses) = 1

----------------------------------------------------------------------------
(* Properties of truncation in prepare_body *)

\* the generation length of generation_kwargs, or the default
ReservedLength ==
    LET given == Get(generation_kwargs, MaxLengthKey(family), NoneV)
    IN  IF Truthy(given) THEN given.n ELSE DefaultMaxLength

\* the tokens left to the prompt by the values fixed at construction
PromptBudget == constructed.prompt_handler.model_max_length - ReservedLength

\* the prompt of the conversation before truncation
Templated ==
    IF family = "mistral" THEN Mistral_chat_template(messages).prompt
    ELSE Llama2_chat_template(messages).prompt

\* text is full, cut to the budget when it is longer
CutToBudget(text, full) ==
    /\ Len(text) = Min(Len(full), PromptBudget)
    /\ text = SubSeq(full, 1, Len(text))

\* C15: with truncate set, the prompt (for Anthropic, the text of every
\* message) in the body is cut to model_max_length minus the generation
\* length fixed at construction (max_tokens / max_gen_len of
\* generation_kwargs, or 512), whatever the call passes; a max_tokens /
\* max_gen_len passed to the call is the value in the body.
C15_FixedBudget ==
    (Returned /\ truncate) =>
        /\ family # "anthropic" => CutToBudget(body["prompt"].s, Templated)
        /\ family = "anthropic" =>
              \A i \in 1..Len(UserAssistant(messages)) :
                  CutToBudget(body["messages"].m[i].content.m[1].text.s,
                              UserAssistant(messages)[i].content)
        /\ MaxLengthKey(family) \in DOMAIN inference_kwargs =>
              body[MaxLengthKey(family)] = inference_kwargs[MaxLengthKey(family)]

\* C15 witness: a call passes a generation length above the one fixed at
\* construction, the prompt is cut, and the cut prompt and the generation
\* length of the body together exceed model_max_length.
C15_Witness ==
    /\ Returned
    /\ truncate
    /\ family # "anthropic"
    /\ MaxLengthKey(family) \in DOMAIN inference_kwargs
    /\ Len(body["prompt"].s) < Len(Templated)
    /\ Len(body["prompt"].s) + body[MaxLengthKey(family)].n
          > prompt_handler.model_max_length

====
